---- MODULE Spec2Model ----
(***************************************************************************)
(* The tag capture scripts of nfc-agent: the automatic capture loop        *)
(* (scripts/auto_capture.py) and the interactive variant                   *)
(* (scripts/capture_tag_data.py), the single-tag capture                   *)
(* (scripts/capture_one.py), together with the device agent they talk      *)
(* to: the agent sends envelopes over the websocket and appends lines to   *)
(* the capture log while the script runs.                                  *)
(***************************************************************************)
EXTENDS Integers, Sequences, FiniteSets, TLC

VARIABLES
    pc,          \* position of the script's single task
    chan,        \* websocket: texts sent by the agent, not yet received
    log,         \* CAPTURE_LOG: NoFile, or the sequence of its lines
    written,     \* the fixture files written so far, in order (path + data)
    reader_name, \* readers[0].get("name", "Unknown")
    reader_id,   \* get_reader_id(reader_name)
    tag_index,   \* auto_capture.main: index into TAGS
    last_uid,    \* auto_capture.main: the remembered UID
    card,        \* auto_capture.main: card of the detection being captured
    responses,   \* the mapping returned by parse_capture_log()
    steps,       \* history: the steps done for the capture in progress
    clears,      \* history: the calls of clear_capture_log() so far
    qualified,   \* history: number of detections that started a capture
    outcome,     \* history: what the loop made of the latest envelope:
                 \* <<"capture", a UID was remembered>>, <<"ignore", it
                 \* carried the remembered UID>>, <<"removed">> or
                 \* <<"error">>; in capture_tags_for_reader, how the latest
                 \* iteration ended
    iter,        \* capture_tags_for_reader: profiles the for loop has passed
    card_data,   \* capture_tags_for_reader: what wait_for_card returned
    removed_since, \* history: a card_removed was received since the last save
    sent,        \* history: the requests the script has sent, in order
    replied      \* the agent: number of requests it has answered

\* The variables of capture_tags_for_reader alone.
interVars == <<iter, card_data, removed_since>>

\* The variables of auto_capture.main alone.
autoVars == <<tag_index, last_uid, card, steps, qualified>>

\* The requests sent and answered.
rpcVars == <<sent, replied>>

vars == <<pc, chan, log, written, reader_name, reader_id, tag_index,
          last_uid, card, responses, steps, clears, qualified,
          outcome, iter, card_data, removed_since, sent, replied>>

-----------------------------------------------------------------------------
(* Bounds of the model. *)

\* Envelopes that wait at a pending ws.recv().
MaxChan == 1

\* Lines the capture log holds at most.
MaxLogLines == 1

\* Lines of a capture log that is read as text.
MaxTextLines == 2

-----------------------------------------------------------------------------
(* Python values. *)

\* Python's None.
None == "None"

\* A dict, a str holding a text, a list.
Obj(f) == [t |-> "obj", v |-> f]
Str(s) == [t |-> "str", v |-> s]
Arr(s) == [t |-> "arr", v |-> s]

EmptyDict == [k \in {} |-> None]

\* None where a dict may stand as well (a card, or no card).
NoValue == [t |-> "none", v |-> EmptyDict]

\* d.get(k, default)
Get(d, k, default) == IF k \in DOMAIN d THEN d[k] ELSE default

\* json.dumps(v): the text that encodes v.  Garbage is a text that encodes
\* nothing.
Dumps(v) == <<"json", v>>
Garbage == <<"garbage">>

\* json.loads(text): the value, or a JSONDecodeError.
Loads(text) ==
    IF text[1] = "json" THEN [ok |-> TRUE, val |-> text[2]]
    ELSE [ok |-> FALSE, val |-> None]

-----------------------------------------------------------------------------
(* Python strings the scripts search or rewrite are sequences of characters. *)

\* The letters: Letters[1] in lower case, Letters[2] in upper case.
Letters ==
    <<<<"a", "b", "c", "d", "e", "f", "g", "h", "i", "j", "k", "l", "m",
        "n", "o", "p", "q", "r", "s", "t", "u", "v", "w", "x", "y", "z">>,
      <<"A", "B", "C", "D", "E", "F", "G", "H", "I", "J", "K", "L", "M",
        "N", "O", "P", "Q", "R", "S", "T", "U", "V", "W", "X", "Y", "Z">>>>

\* c.upper() for one character
UpperChar(c) ==
    IF \E i \in 1..26 : Letters[1][i] = c
    THEN Letters[2][CHOOSE i \in 1..26 : Letters[1][i] = c]
    ELSE c

\* s.upper()
Upper(s) == [i \in 1..Len(s) |-> UpperChar(s[i])]

\* a in b
IsIn(a, b) ==
    \E i \in 0..(Len(b) - Len(a)) : SubSeq(b, i + 1, i + Len(a)) = a

\* s.replace(old, ""), old not empty
RECURSIVE Remove(_, _)
Remove(s, old) ==
    IF Len(s) < Len(old) THEN s
    ELSE IF SubSeq(s, 1, Len(old)) = old
         THEN Remove(SubSeq(s, Len(old) + 1, Len(s)), old)
         ELSE <<Head(s)>> \o Remove(Tail(s), old)

-----------------------------------------------------------------------------
(* auto_capture.py: configuration. *)

TAGS == <<
    <<"NTAG213", "ntag213">>,
    <<"NTAG215", "ntag215">>,
    <<"NTAG216", "ntag216">>,
    <<"MIFARE Classic", "mifare_classic">>,
    <<"MIFARE Ultralight", "mifare_ultralight">> >>

\* The capture log does not exist.
NoFile == << <<"ENOENT">> >>

-----------------------------------------------------------------------------
(* The capture log.  A line is the sequence of its " | "-separated fields: *)
(* timestamp, method, command, response.  The response field carries the   *)
(* "rsp=" marker (or not) and the logged bytes.  The bytes tell when the    *)
(* line was logged: n for a line logged after n - 1 calls of               *)
(* clear_capture_log(), 0 for a line logged before the run.                *)

RspField(marker, n) == [marker |-> marker, hex |-> n]

CmdField(marker, n) == [marker |-> marker, hex |-> n]

LogLine(nf, method, n) ==
    SubSeq(<<"ts", method, CmdField(TRUE, n), RspField(TRUE, n), "extra">>,
           1, nf)

\* str.lower() on the method names the agent logs.
Lower(s) ==
    CASE s = "READ" -> "read"
      [] s = "Read" -> "read"
      [] s = "GETVERSION" -> "getversion"
      [] OTHER -> s

\* parts[2].replace("cmd=", "")
StripCmd(field) == field.hex

\* parts[3].replace("rsp=", "")
StripRsp(field) == field.hex

\* responses[method.lower()] = rsp
Put(m, k, x) == [kk \in DOMAIN m \cup {k} |-> IF kk = k THEN x ELSE m[kk]]

RECURSIVE ParseLines(_, _)
ParseLines(lines, acc) ==
    IF lines = <<>> THEN acc
    ELSE LET parts == Head(lines)
         IN  ParseLines(Tail(lines),
                 IF Len(parts) >= 4
                 THEN Put(acc, Lower(parts[2]), StripRsp(parts[4]))
                 ELSE acc)

\* auto_capture.parse_capture_log()
parse_capture_log(file) ==
    IF file = NoFile THEN EmptyDict ELSE ParseLines(file, EmptyDict)

\* A clear that leaves the file as it is.
clear_keeps_file(file) == file

\* auto_capture.clear_capture_log(): the file after the call
clear_capture_log(file) == NoFile

-----------------------------------------------------------------------------
(* The fixture writer. *)

\* A save that takes the label for the file name.
save_by_label(rid, tag_file, tag_name, c, rsps, rname) ==
    [path |-> <<rid, tag_name>>,
     reader |-> rname,
     reader_id |-> rid,
     tag_type |-> tag_name,
     uid |-> Get(c, "uid", ""),
     responses |-> rsps,
     detected_type |-> Get(c, "type", "")]

\* auto_capture.save(): the file written, as its path and its data
save(rid, tag_file, tag_name, c, rsps, rname) ==
    [path |-> <<rid, tag_file>>,
     reader |-> rname,
     reader_id |-> rid,
     tag_type |-> tag_name,
     uid |-> Get(c, "uid", ""),
     responses |-> rsps,
     detected_type |-> Get(c, "type", "")]

-----------------------------------------------------------------------------
(* The agent. *)

\* The type label the agent infers for an NTAG213.
TypeNtag213 == <<"N", "T", "A", "G", "2", "1", "3">>

\* A card_detected envelope for the card c, its payload native or
\* string-encoded.
DetectedEnvelope(c, asString) ==
    Dumps(Obj([type |-> "card_detected",
               payload |-> IF asString
                           THEN Str(Dumps(Obj([card |-> Obj(c)])))
                           ELSE Obj([card |-> Obj(c)])]))

\* The card_detected envelope of an NTAG213 with the given UID.
CardDetected(uid, asString) ==
    DetectedEnvelope([uid |-> uid, type |-> TypeNtag213], asString)

CardRemoved == Dumps(Obj([type |-> "card_removed"]))

\* An envelope of another type.
OtherEnvelope == Dumps(Obj([type |-> "reader_status"]))

UIDs == {"04AB", "04CD"}

\* What the agent sends to the automatic loop: two tags (one with a native
\* payload, one with a string-encoded payload), a detection without UID, a
\* removal, and an envelope of another type.
AutoEvents ==
    {CardDetected("04AB", FALSE), CardDetected("04CD", TRUE),
     CardDetected("", FALSE), CardRemoved, OtherEnvelope}

\* The card_detected envelope of a tag the agent gives no type for.
CardDetectedUntyped(uid) == DetectedEnvelope([uid |-> uid], TRUE)

\* What the agent sends to the interactive variant: an NTAG213, a tag without
\* type, and a removal.
InterEvents ==
    {CardDetected("04AB", TRUE), CardDetectedUntyped("04AB"), CardRemoved}

\* The websocket is open and the agent serves the run: the script has neither
\* finished nor exited.
Running ==
    pc \notin {"done", "error", "crash", "i_unsub", "o_done", "o_timeout",
               "cancelled"}

\* The script awaits ws.recv().
Receiving == pc \in {"recv", "i_wait", "i_wait2", "i_removal", "o_recv"}

\* What the agent logs: a full line, or a truncated one.
LogKinds == {<<4, "READ">>, <<3, "READ">>}

\* The pending ws.recv() is handed an envelope from the agent.  An envelope
\* the agent sends while the script is elsewhere waits in the socket and is
\* handed over at the next ws.recv(): it is counted there.
AgentSend(events) ==
    /\ Receiving
    /\ Len(chan) < MaxChan
    /\ \E e \in events : chan' = Append(chan, e)
    /\ UNCHANGED <<pc, log, written, reader_name, reader_id,
                   tag_index, last_uid, card, responses, steps, clears, qualified, outcome,
                   interVars,
                   rpcVars>>

\* The agent appends a line to the capture log, creating it if need be.
AgentLog ==
    /\ Running
    /\ log = NoFile \/ Len(log) < MaxLogLines
    /\ \E k \in LogKinds :
          log' = Append(IF log = NoFile THEN <<>> ELSE log,
                        LogLine(k[1], k[2], clears + 1))
    /\ UNCHANGED <<pc, chan, written, reader_name, reader_id, tag_index,
                   last_uid, card, responses, steps, clears,
                   qualified, outcome,
                   interVars,
                   rpcVars>>

-----------------------------------------------------------------------------
(* auto_capture.main: the capture loop. *)

\* while tag_index < len(TAGS): the loop goes on to receive, or ends
LoopHead(idx) == IF idx < Len(TAGS) THEN "recv" ELSE "done"

\* A detection that accepts any non-empty UID, remembered or not.
QualifiesAnyUid(uid, last) == uid # ""

\* A detection that is accepted only once the remembered UID was cleared.
QualifiesAfterRemoval(uid, last) == uid # "" /\ last = None

\* A detection that is accepted with an empty UID as well.
QualifiesEmpty(uid, last) == uid # last

\* if uid and uid != last_uid
Qualifies(uid, last) == uid # "" /\ uid # last

\* A card_removed that leaves the remembered UID as it is.
KeepOnCardRemoved(last) == last

\* elif data.get("type") == "card_removed": last_uid = None
OnCardRemoved(last) == None

\* What the loop body makes of a received text, up to its first await.
Classify(resp, last) ==
    LET data == Loads(resp) IN
    IF ~data.ok \/ data.val.t # "obj" THEN [kind |-> "error"]
    ELSE LET type == Get(data.val.v, "type", None) IN
    IF type = "card_detected" THEN
        LET p0 == Get(data.val.v, "payload", Obj(EmptyDict))
            p1 == IF p0.t = "str" THEN Loads(p0.v)
                  ELSE [ok |-> TRUE, val |-> p0]
        IN  IF ~p1.ok \/ p1.val.t # "obj" THEN [kind |-> "error"]
            ELSE LET c == Get(p1.val.v, "card", Obj(EmptyDict)) IN
            IF c.t # "obj" THEN [kind |-> "error"]
            ELSE LET uid == Get(c.v, "uid", "") IN
            IF Qualifies(uid, last)
            THEN [kind |-> "capture", card |-> c.v, uid |-> uid]
            ELSE [kind |-> "ignore", uid |-> uid]
    ELSE IF type = "card_removed" THEN [kind |-> "removed"]
    ELSE [kind |-> "ignore", uid |-> None]

\* resp = await asyncio.wait_for(ws.recv(), 1.0), and the body up to its
\* first await
RecvEnvelope ==
    /\ pc = "recv"
    /\ chan # <<>>
    /\ chan' = Tail(chan)
    /\ LET r == Classify(Head(chan), last_uid) IN
       /\ outcome' = CASE r.kind = "capture" -> <<r.kind, last_uid # None>>
                        [] r.kind = "ignore" ->
                               <<r.kind, r.uid # None /\ r.uid = last_uid>>
                        [] OTHER -> <<r.kind>>
       /\ CASE r.kind = "capture" ->
              /\ last_uid' = r.uid
              /\ card' = r.card
              /\ pc' = "settle"
              /\ steps' = <<"detected">>
              /\ qualified' = qualified + 1
         [] r.kind = "removed" ->
              /\ last_uid' = OnCardRemoved(last_uid)
              /\ pc' = LoopHead(tag_index)
              /\ UNCHANGED <<card, steps, qualified>>
         [] r.kind = "ignore" ->
              /\ pc' = LoopHead(tag_index)
              /\ UNCHANGED <<last_uid, card, steps, qualified>>
         [] r.kind = "error" ->
              /\ pc' = "error"
              /\ UNCHANGED <<last_uid, card, steps, qualified>>
    /\ UNCHANGED <<log, written, reader_name, reader_id, tag_index,
                   responses, clears,
                   interVars,
                   rpcVars>>

\* A receive timeout that ends the loop.
RecvTimeoutGivesUp ==
    /\ pc = "recv"
    /\ chan = <<>>
    /\ pc' = "done"
    /\ outcome' = <<"timeout">>
    /\ UNCHANGED <<chan, log, written, reader_name, reader_id,
                   tag_index, last_uid, card, responses, steps, clears, qualified,
                   interVars,
                   rpcVars>>

\* except asyncio.TimeoutError: continue
RecvTimeout ==
    /\ pc = "recv"
    /\ chan = <<>>
    /\ pc' = LoopHead(tag_index)
    /\ outcome' = <<"timeout">>
    /\ UNCHANGED <<chan, log, written, reader_name, reader_id,
                   tag_index, last_uid, card, responses, steps, clears, qualified,
                   interVars,
                   rpcVars>>

\* await asyncio.sleep(0.3)
Settle ==
    /\ pc = "settle"
    /\ pc' = "parse"
    /\ steps' = Append(steps, "settle")
    /\ UNCHANGED <<chan, log, written, reader_name, reader_id,
                   tag_index, last_uid, card, responses, clears,
                   qualified, outcome,
                   interVars,
                   rpcVars>>

\* A snapshot that clears the log as soon as it is taken, before the write.
ParseAndClear ==
    /\ pc = "parse"
    /\ responses' = parse_capture_log(log)
    /\ log' = clear_capture_log(log)
    /\ clears' = clears + 1
    /\ pc' = "save"
    /\ steps' = Append(Append(steps, "parse"), "clear")
    /\ UNCHANGED <<chan, written, reader_name, reader_id,
                   tag_index, last_uid, card, qualified, outcome,
                   interVars,
                   rpcVars>>

\* responses = parse_capture_log()
ParseStep ==
    /\ pc = "parse"
    /\ responses' = parse_capture_log(log)
    /\ pc' = "save"
    /\ steps' = Append(steps, "parse")
    /\ UNCHANGED <<chan, log, written, reader_name, reader_id,
                   tag_index, last_uid, card, clears, qualified, outcome,
                   interVars,
                   rpcVars>>

\* save(reader_id, tag_file, tag_name, card, responses, reader_name)
SaveStep ==
    /\ pc = "save"
    /\ written' = Append(written,
           save(reader_id, TAGS[tag_index + 1][2], TAGS[tag_index + 1][1],
                card, responses, reader_name))
    /\ pc' = "clear"
    /\ steps' = Append(steps, "save")
    /\ UNCHANGED <<chan, log, reader_name, reader_id, tag_index,
                   last_uid, card, responses, clears, qualified, outcome,
                   interVars,
                   rpcVars>>

\* A failed save that is swallowed: the loop goes on as after a write.
SaveFailsSwallowed ==
    /\ pc = "save"
    /\ pc' = "clear"
    /\ steps' = Append(steps, "save")
    /\ UNCHANGED <<chan, log, written, reader_name, reader_id,
                   tag_index, last_uid, card, responses, clears, qualified,
                   outcome,
                   interVars,
                   rpcVars>>

\* save() raises (mkdir, open or write fails): except Exception, sys.exit(1)
SaveFails ==
    /\ pc = "save"
    /\ pc' = "error"
    /\ UNCHANGED <<chan, log, written, reader_name, reader_id,
                   tag_index, last_uid, card, responses, steps, clears, qualified, outcome,
                   interVars,
                   rpcVars>>

\* clear_capture_log()
ClearStep ==
    /\ pc = "clear"
    /\ log' = clear_capture_log(log)
    /\ clears' = clears + 1
    /\ pc' = "advance"
    /\ steps' = Append(steps, "clear")
    /\ UNCHANGED <<chan, written, reader_name, reader_id, tag_index,
                   last_uid, card, responses, qualified, outcome,
                   interVars,
                   rpcVars>>

\* An index advance that also forgets the remembered UID.
AdvanceForgets ==
    /\ pc = "advance"
    /\ tag_index' = tag_index + 1
    /\ last_uid' = None
    /\ pc' = LoopHead(tag_index + 1)
    /\ steps' = Append(steps, "advance")
    /\ UNCHANGED <<chan, log, written, reader_name, reader_id,
                   card, responses, clears, qualified, outcome,
                   interVars,
                   rpcVars>>

\* tag_index += 1, and the loop condition
Advance ==
    /\ pc = "advance"
    /\ tag_index' = tag_index + 1
    /\ pc' = LoopHead(tag_index + 1)
    /\ steps' = Append(steps, "advance")
    /\ UNCHANGED <<chan, log, written, reader_name, reader_id,
                   last_uid, card, responses, clears, qualified, outcome,
                   interVars,
                   rpcVars>>

\* A log the agent left behind before the run.
StaleLogs == {NoFile, <<LogLine(4, "READ", 0)>>}

\* The state after the subscribe reply: last_uid = None, tag_index = 0.
InitAuto ==
    /\ pc = LoopHead(0)
    /\ chan = <<>>
    /\ log \in StaleLogs
    /\ written = <<>>
    /\ reader_name = "ACS ACR122U"
    /\ reader_id = "acr122u"
    /\ tag_index = 0
    /\ last_uid = None
    /\ card = EmptyDict
    /\ responses = EmptyDict
    /\ steps = <<>>
    /\ clears = 0
    /\ qualified = 0
    /\ outcome = <<>>
    /\ iter = 0
    /\ card_data = NoValue
    /\ removed_since = FALSE
    /\ sent = <<[type |-> "list_readers", id |-> "1"],
                [type |-> "subscribe", id |-> "2"]>>
    /\ replied = 2

NextAuto ==
    \/ AgentSend(AutoEvents)
    \/ AgentLog
    \/ RecvEnvelope
    \/ RecvTimeout
    \/ Settle
    \/ ParseStep
    \/ SaveStep
    \/ SaveFails
    \/ ClearStep
    \/ Advance

SpecAuto == InitAuto /\ [][NextAuto]_vars

\* A card_detected envelope whose string payload does not decode.
CardDetectedBadPayload ==
    Dumps(Obj([type |-> "card_detected", payload |-> Str(Garbage)]))

\* A card_detected envelope whose string payload decodes to a list.
CardDetectedListPayload ==
    Dumps(Obj([type |-> "card_detected",
               payload |-> Str(Dumps(Arr(<<>>)))]))

\* The malformed events: a text that does not decode, and the two above.
MalformedEvents == {Garbage, CardDetectedBadPayload, CardDetectedListPayload}

\* A card_detected envelope whose card has no uid.
CardDetectedNoUid == DetectedEnvelope([type |-> TypeNtag213], FALSE)

\* The events the loop has no use for: another type, an empty UID, no UID.
IdleEvents == {OtherEnvelope, CardDetected("", FALSE), CardDetectedNoUid}

\* What an agent sends that reports one tag, sends events the loop has no
\* use for, and garbles some.
FaultEvents ==
    {CardDetected("04AB", FALSE), CardRemoved} \cup IdleEvents
        \cup MalformedEvents

NextAutoFaults ==
    \/ AgentSend(FaultEvents)
    \/ AgentLog
    \/ RecvEnvelope
    \/ RecvTimeout
    \/ Settle
    \/ ParseStep
    \/ SaveStep
    \/ SaveFails
    \/ ClearStep
    \/ Advance

\* The automatic loop with an agent that garbles some of its events.
SpecAutoFaults == InitAuto /\ [][NextAutoFaults]_vars

\* The operator interrupts the run (Ctrl-C): asyncio.run cancels main, which
\* is not an Exception for the handler of lines 150-152; the process ends.
Cancel ==
    /\ pc \in {"recv", "settle", "parse", "save", "clear", "advance"}
    /\ pc' = "cancelled"
    /\ UNCHANGED <<chan, log, written, reader_name, reader_id,
                   tag_index, last_uid, card, responses, steps, clears, qualified, outcome,
                   interVars,
                   rpcVars>>

\* The steps of the script itself: the event loop runs main whenever one of
\* its awaits can complete, and every await of the loop completes (the
\* receive by an envelope or by its timeout, the sleep by its delay).
ScriptAuto ==
    \/ RecvEnvelope
    \/ RecvTimeout
    \/ Settle
    \/ ParseStep
    \/ SaveStep
    \/ SaveFails
    \/ ClearStep
    \/ Advance

NextAutoCancel ==
    \/ AgentSend(FaultEvents)
    \/ AgentLog
    \/ ScriptAuto
    \/ Cancel

\* The automatic loop, scheduled fairly: the script is never starved.  The
\* agent and the operator are free to do nothing.  A step of the script
\* that changes anything changes its position, the socket's queue, or what
\* it made of the latest receive.
SpecAutoFair ==
    /\ InitAuto
    /\ [][NextAutoCancel]_vars
    /\ WF_<<pc, chan, outcome>>(ScriptAuto)

-----------------------------------------------------------------------------
(* capture_one.py: the capture of a single tag. *)

TAG_NAME == "MIFARE Ultralight"
TAG_FILE == "mifare_ultralight"

\* if uid: the loop keeps no remembered UID
OneQualifies(uid) == uid # ""

\* resp = await asyncio.wait_for(ws.recv(), timeout=30.0), and the body up
\* to its first await.  An exception other than the timeout is not caught:
\* it leaves main.
OneRecv ==
    /\ pc = "o_recv"
    /\ chan # <<>>
    /\ chan' = Tail(chan)
    /\ LET r == Classify(Head(chan), None) IN
       CASE r.kind = "capture" /\ OneQualifies(r.uid) ->
              /\ card' = r.card
              /\ pc' = "o_settle"
              /\ outcome' = <<"capture">>
         [] r.kind = "error" ->
              /\ pc' = "crash"
              /\ outcome' = <<"error">>
              /\ UNCHANGED card
         [] OTHER ->
              /\ pc' = "o_recv"
              /\ outcome' = <<"ignore">>
              /\ UNCHANGED card
    /\ UNCHANGED <<log, written, reader_name, reader_id, tag_index, last_uid,
                   responses, steps, clears, qualified,
                   interVars,
                   rpcVars>>

\* except asyncio.TimeoutError: print("Timeout waiting for tag..."); return
OneTimeout ==
    /\ pc = "o_recv"
    /\ chan = <<>>
    /\ pc' = "o_timeout"
    /\ outcome' = <<"timeout">>
    /\ UNCHANGED <<chan, log, written, reader_name, reader_id,
                   tag_index, last_uid, card, responses, steps, clears, qualified,
                   interVars,
                   rpcVars>>

\* await asyncio.sleep(0.3)
OneSettle ==
    /\ pc = "o_settle"
    /\ pc' = "o_parse"
    /\ UNCHANGED <<chan, log, written, reader_name, reader_id,
                   tag_index, last_uid, card, responses, steps, clears,
                   qualified, outcome,
                   interVars,
                   rpcVars>>

\* responses = parse_capture_log()
OneParse ==
    /\ pc = "o_parse"
    /\ responses' = parse_capture_log(log)
    /\ pc' = "o_save"
    /\ UNCHANGED <<chan, log, written, reader_name, reader_id,
                   tag_index, last_uid, card, steps, clears, qualified, outcome,
                   interVars,
                   rpcVars>>

\* The fixture is written in place, with the fields save() writes; return
OneSave ==
    /\ pc = "o_save"
    /\ written' = Append(written,
           save(reader_id, TAG_FILE, TAG_NAME, card, responses, reader_name))
    /\ pc' = "o_done"
    /\ UNCHANGED <<chan, log, reader_name, reader_id, tag_index,
                   last_uid, card, responses, steps, clears, qualified, outcome,
                   interVars,
                   rpcVars>>

\* mkdir, open or json.dump raises: nothing catches it
OneSaveFails ==
    /\ pc = "o_save"
    /\ pc' = "crash"
    /\ UNCHANGED <<chan, log, written, reader_name, reader_id,
                   tag_index, last_uid, card, responses, steps, clears, qualified, outcome,
                   interVars,
                   rpcVars>>

\* The single-tag capture after its subscribe reply.
InitOne ==
    /\ pc = "o_recv"
    /\ chan = <<>>
    /\ log \in StaleLogs
    /\ written = <<>>
    /\ reader_name = "ACS ACR122U"
    /\ reader_id = "acr122u"
    /\ tag_index = 0
    /\ last_uid = None
    /\ card = EmptyDict
    /\ responses = EmptyDict
    /\ steps = <<>>
    /\ clears = 0
    /\ qualified = 0
    /\ outcome = <<>>
    /\ iter = 0
    /\ card_data = NoValue
    /\ removed_since = FALSE
    /\ sent = <<[type |-> "list_readers", id |-> "1"],
                [type |-> "subscribe", id |-> "2"]>>
    /\ replied = 2

NextLoops ==
    \/ AgentSend(FaultEvents)
    \/ AgentLog
    \/ RecvEnvelope
    \/ RecvTimeout
    \/ Settle
    \/ ParseStep
    \/ SaveStep
    \/ SaveFails
    \/ ClearStep
    \/ Advance
    \/ OneRecv
    \/ OneTimeout
    \/ OneSettle
    \/ OneParse
    \/ OneSave
    \/ OneSaveFails

\* The two loops that wait with a receive timeout, each run being one of
\* them.
SpecLoops == (InitAuto \/ InitOne) /\ [][NextLoops]_vars

-----------------------------------------------------------------------------
(* capture_tag_data.py: the interactive variant. *)

TAG_TYPES == <<
    <<<<"N", "T", "A", "G", "2", "1", "3">>, <<"n", "t", "a", "g", "2", "1", "3">>>>,
    <<<<"N", "T", "A", "G", "2", "1", "5">>, <<"n", "t", "a", "g", "2", "1", "5">>>>,
    <<<<"N", "T", "A", "G", "2", "1", "6">>, <<"n", "t", "a", "g", "2", "1", "6">>>>,
    <<<<"I", "C", "o", "d", "e", " ", "S", "l", "i", "x", "2">>, <<"i", "c", "o", "d", "e", "_", "s", "l", "i", "x", "2">>>>,
    <<<<"M", "I", "F", "A", "R", "E", " ", "C", "l", "a", "s", "s", "i", "c", " ", "1", "K">>, <<"m", "i", "f", "a", "r", "e", "_", "c", "l", "a", "s", "s", "i", "c">>>>,
    <<<<"M", "I", "F", "A", "R", "E", " ", "U", "l", "t", "r", "a", "l", "i", "g", "h", "t">>, <<"m", "i", "f", "a", "r", "e", "_", "u", "l", "t", "r", "a", "l", "i", "g", "h", "t">>>> >>

\* str.lower() on the file slugs, which are lower case already
LowerSlug(f) == f

\* The profiles of TAG_TYPES from position k on that are kept.
RECURSIVE SkipSlix(_, _)
SkipSlix(tags, k) ==
    IF k > Len(tags) THEN <<>>
    ELSE IF ~IsIn(<<"s", "l", "i", "x">>, LowerSlug(tags[k][2]))
         THEN <<tags[k]>> \o SkipSlix(tags, k + 1)
         ELSE SkipSlix(tags, k + 1)

\* tags_to_capture, for a reader that does not support ISO 15693
\* (skip_iso15693, as main sets it for an ACR122U)
tags_to_capture == SkipSlix(TAG_TYPES, 1)

\* capture_tag_data.parse_capture_log()
RECURSIVE ParseLinesCmd(_, _)
ParseLinesCmd(lines, acc) ==
    IF lines = <<>> THEN acc
    ELSE LET parts == Head(lines)
         IN  ParseLinesCmd(Tail(lines),
                 IF Len(parts) >= 4
                 THEN Put(acc, Lower(parts[2]),
                          [cmd |-> StripCmd(parts[3]),
                           rsp |-> StripRsp(parts[4])])
                 ELSE acc)

ctd_parse_capture_log(file) ==
    IF file = NoFile THEN EmptyDict ELSE ParseLinesCmd(file, EmptyDict)

\* capture_tag_data.save_capture_data(): the file written
save_capture_data(rid, tag_file, c, rsps, rname, tag_display) ==
    [path |-> <<rid, tag_file>>,
     reader |-> rname,
     reader_id |-> rid,
     tag_type |-> tag_display,
     uid |-> Get(c, "uid", ""),
     responses |-> [m \in DOMAIN rsps |-> rsps[m].rsp],
     detected_type |-> Get(c, "type", "")]

\* for tag_display, tag_file in tags_to_capture: the next iteration, or the
\* unsubscribe after the loop
ForHead(k) == IF k < Len(tags_to_capture) THEN "i_clear" ELSE "i_unsub"

\* not card_data
NoCard(c) == c.t = "none" \/ (c.t = "obj" /\ DOMAIN c.v = {})

\* What one pass of wait_for_card's loop makes of a received text.
WaitForCardOn(resp) ==
    LET data == Loads(resp) IN
    IF ~data.ok \/ data.val.t # "obj" THEN [kind |-> "raise"]
    ELSE IF Get(data.val.v, "type", None) = "card_detected" THEN
        LET p0 == Get(data.val.v, "payload", Str(Dumps(Obj(EmptyDict))))
        IN  IF p0.t # "str" THEN [kind |-> "raise"]
            ELSE LET p1 == Loads(p0.v) IN
            IF ~p1.ok \/ p1.val.t # "obj" THEN [kind |-> "raise"]
            ELSE [kind |-> "return",
                  card |-> Get(p1.val.v, "card", NoValue)]
    ELSE [kind |-> "again"]

\* What one pass of wait_for_card_removal's loop makes of a received text.
WaitForRemovalOn(resp) ==
    LET data == Loads(resp) IN
    IF ~data.ok \/ data.val.t # "obj" THEN [kind |-> "raise"]
    ELSE IF Get(data.val.v, "type", None) = "card_removed"
         THEN [kind |-> "return"]
         ELSE [kind |-> "again"]

\* The detected type matches neither way the expected one.
Mismatch(c, tag_display) ==
    LET detected == Upper(Get(c, "type", <<>>))
        expected == Remove(Upper(tag_display), <<" ", "1", "K">>)
    IN  ~IsIn(expected, detected) /\ ~IsIn(detected, expected)

\* The envelope received is a card_removed (history).
IsRemoved(resp) == resp = CardRemoved

\* continue, or the end of the loop body: on to the next profile
NextProfile(how) ==
    /\ iter' = iter + 1
    /\ pc' = ForHead(iter + 1)
    /\ outcome' = how

\* clear_capture_log(), at the top of the loop body
ClearBeforeScan ==
    /\ pc = "i_clear"
    /\ log' = clear_capture_log(log)
    /\ clears' = clears + 1
    /\ pc' = "i_place"
    /\ UNCHANGED <<chan, written, reader_name, reader_id, responses,
                   outcome, interVars, autoVars,
                   rpcVars>>

\* input("Place ... on the reader and press Enter...")
PromptPlace ==
    /\ pc = "i_place"
    /\ pc' = "i_wait"
    /\ UNCHANGED <<chan, log, written, reader_name, reader_id,
                   responses, clears, outcome, interVars, autoVars,
                   rpcVars>>

\* wait_for_card(ws, timeout=30.0), first or after the retry: a text arrives
WaitForCardRecv ==
    /\ pc \in {"i_wait", "i_wait2"}
    /\ chan # <<>>
    /\ chan' = Tail(chan)
    /\ removed_since' = (removed_since \/ IsRemoved(Head(chan)))
    /\ LET r == WaitForCardOn(Head(chan)) IN
       CASE r.kind = "raise" ->
              /\ pc' = "crash"
              /\ UNCHANGED <<card_data, iter, outcome>>
         [] r.kind = "again" ->
              /\ UNCHANGED <<pc, card_data, iter, outcome>>
         [] r.kind = "return" ->
              /\ card_data' = r.card
              /\ IF ~NoCard(r.card)
                 THEN pc' = "i_settle" /\ UNCHANGED <<iter, outcome>>
                 ELSE IF pc = "i_wait"
                      THEN pc' = "i_retry" /\ UNCHANGED <<iter, outcome>>
                      ELSE NextProfile(<<"no card">>)
    /\ UNCHANGED <<log, written, reader_name, reader_id, responses,
                   clears, autoVars,
                   rpcVars>>

\* wait_for_card: asyncio.TimeoutError, return None
WaitForCardTimeout ==
    /\ pc \in {"i_wait", "i_wait2"}
    /\ chan = <<>>
    /\ card_data' = NoValue
    /\ IF pc = "i_wait"
       THEN pc' = "i_retry" /\ UNCHANGED <<iter, outcome>>
       ELSE NextProfile(<<"no card">>)
    /\ UNCHANGED <<chan, log, written, reader_name, reader_id,
                   responses, clears, removed_since, autoVars,
                   rpcVars>>

\* retry = input("  Retry? (y/n): ")
PromptRetry ==
    /\ pc = "i_retry"
    /\ \E retry \in {"y", "n"} :
          IF retry = "y"
          THEN pc' = "i_wait2" /\ UNCHANGED <<iter, outcome>>
          ELSE NextProfile(<<"no card">>)
    /\ UNCHANGED <<chan, log, written, reader_name, reader_id,
                   responses, clears, card_data, removed_since, autoVars,
                   rpcVars>>

\* await asyncio.sleep(0.5)
SettleInter ==
    /\ pc = "i_settle"
    /\ pc' = "i_parse"
    /\ UNCHANGED <<chan, log, written, reader_name, reader_id,
                   responses, clears, outcome, interVars, autoVars,
                   rpcVars>>

\* responses = parse_capture_log(), and the check of the detected type
ParseInter ==
    /\ pc = "i_parse"
    /\ responses' = ctd_parse_capture_log(log)
    /\ pc' = IF Mismatch(card_data.v, tags_to_capture[iter + 1][1])
             THEN "i_confirm" ELSE "i_save"
    /\ UNCHANGED <<chan, log, written, reader_name, reader_id,
                   clears, outcome, interVars, autoVars,
                   rpcVars>>

\* confirm = input("  Save anyway? (y/n): ")
PromptSaveAnyway ==
    /\ pc = "i_confirm"
    /\ \E confirm \in {"y", "n"} :
          IF confirm = "y"
          THEN pc' = "i_save" /\ UNCHANGED <<iter, outcome>>
          ELSE NextProfile(<<"declined">>)
    /\ UNCHANGED <<chan, log, written, reader_name, reader_id,
                   responses, clears, card_data, removed_since, autoVars,
                   rpcVars>>

\* A save that writes nothing and goes on to the removal wait.
SaveWritesNothing ==
    /\ pc = "i_save"
    /\ removed_since' = FALSE
    /\ pc' = "i_removal"
    /\ UNCHANGED <<chan, log, written, reader_name, reader_id, responses,
                   clears, outcome, iter, card_data, autoVars,
                   rpcVars>>

\* save_capture_data(reader_id, tag_file, card_data, responses, reader_name,
\* tag_display)
SaveCaptureData ==
    /\ pc = "i_save"
    /\ written' = Append(written,
           save_capture_data(reader_id, tags_to_capture[iter + 1][2],
                             card_data.v, responses, reader_name,
                             tags_to_capture[iter + 1][1]))
    /\ removed_since' = FALSE
    /\ pc' = "i_removal"
    /\ UNCHANGED <<chan, log, reader_name, reader_id, responses,
                   clears, outcome, iter, card_data, autoVars,
                   rpcVars>>

\* save_capture_data() raises: nothing catches it
SaveCaptureDataFails ==
    /\ pc = "i_save"
    /\ pc' = "crash"
    /\ UNCHANGED <<chan, log, written, reader_name, reader_id,
                   responses, clears, outcome, interVars, autoVars,
                   rpcVars>>

\* wait_for_card_removal(ws, timeout=10.0): a text arrives
WaitForRemovalRecv ==
    /\ pc = "i_removal"
    /\ chan # <<>>
    /\ chan' = Tail(chan)
    /\ removed_since' = (removed_since \/ IsRemoved(Head(chan)))
    /\ LET r == WaitForRemovalOn(Head(chan)) IN
       pc' = CASE r.kind = "raise" -> "crash"
               [] r.kind = "again" -> "i_removal"
               [] r.kind = "return" -> "i_sleep"
    /\ UNCHANGED <<log, written, reader_name, reader_id, responses,
                   clears, outcome, iter, card_data, autoVars,
                   rpcVars>>

\* wait_for_card_removal: asyncio.TimeoutError, return False (not looked at)
WaitForRemovalTimeout ==
    /\ pc = "i_removal"
    /\ chan = <<>>
    /\ pc' = "i_sleep"
    /\ UNCHANGED <<chan, log, written, reader_name, reader_id,
                   responses, clears, outcome, interVars, autoVars,
                   rpcVars>>

\* await asyncio.sleep(0.5), the end of the loop body
SleepAfterRemoval ==
    /\ pc = "i_sleep"
    /\ NextProfile(<<"saved">>)
    /\ UNCHANGED <<chan, log, written, reader_name, reader_id,
                   responses, clears, card_data, removed_since, autoVars,
                   rpcVars>>

\* The state after subscribe_to_reader returned True.
InitInter ==
    /\ pc = ForHead(0)
    /\ chan = <<>>
    /\ log \in StaleLogs
    /\ written = <<>>
    /\ reader_name = "ACS ACR122U"
    /\ reader_id = "acr122u"
    /\ tag_index = 0
    /\ last_uid = None
    /\ card = EmptyDict
    /\ responses = EmptyDict
    /\ steps = <<>>
    /\ clears = 0
    /\ qualified = 0
    /\ outcome = <<>>
    /\ iter = 0
    /\ card_data = NoValue
    /\ removed_since = FALSE
    /\ sent = <<[type |-> "list_readers", id |-> "1"],
                [type |-> "subscribe", id |-> "2"]>>
    /\ replied = 2

NextInter ==
    \/ AgentSend(InterEvents)
    \/ AgentLog
    \/ ClearBeforeScan
    \/ PromptPlace
    \/ WaitForCardRecv
    \/ WaitForCardTimeout
    \/ PromptRetry
    \/ SettleInter
    \/ ParseInter
    \/ PromptSaveAnyway
    \/ SaveCaptureData
    \/ SaveCaptureDataFails
    \/ WaitForRemovalRecv
    \/ WaitForRemovalTimeout
    \/ SleepAfterRemoval

SpecInter == InitInter /\ [][NextInter]_vars

\* What the agent sends when the operator swaps two NTAG213 tags: either
\* tag, and a removal.
TwoTagEvents ==
    {CardDetected("04AB", TRUE), CardDetected("04CD", TRUE), CardRemoved}

NextInterTwoTags ==
    \/ AgentSend(TwoTagEvents)
    \/ AgentLog
    \/ ClearBeforeScan
    \/ PromptPlace
    \/ WaitForCardRecv
    \/ WaitForCardTimeout
    \/ PromptRetry
    \/ SettleInter
    \/ ParseInter
    \/ PromptSaveAnyway
    \/ SaveCaptureData
    \/ SaveCaptureDataFails
    \/ WaitForRemovalRecv
    \/ WaitForRemovalTimeout
    \/ SleepAfterRemoval

\* capture_tags_for_reader with two tags in play.
SpecInterTwoTags == InitInter /\ [][NextInterTwoTags]_vars

-----------------------------------------------------------------------------
(* The requests and their replies: auto_capture.main before its loop,       *)
(* capture_tag_data.main with list_readers and subscribe_to_reader, and     *)
(* unsubscribe_from_reader after the loop of capture_tags_for_reader.       *)

\* The name of the one reader the agent lists.
ReaderName == <<"A", "C", "S", " ", "A", "C", "R", "1", "2", "2", "U">>

\* auto_capture.get_reader_id(name)
get_reader_id(name) ==
    IF IsIn(<<"1", "5", "5", "2">>, name) THEN "acr1552u"
    ELSE IF IsIn(<<"1", "2", "2", "U">>, Upper(name)) THEN "acr122u"
    ELSE IF IsIn(<<"1", "2", "5", "2">>, name) THEN "acr1252u"
    ELSE "unknown"

\* c.lower() for one character
LowerChar(c) ==
    IF \E i \in 1..26 : Letters[2][i] = c
    THEN Letters[1][CHOOSE i \in 1..26 : Letters[2][i] = c]
    ELSE c

\* reader_name.lower().replace(" ", "_").replace("/", "_")[:20]
Sanitized(name) ==
    LET low == [i \in 1..Len(name) |->
                   IF name[i] \in {" ", "/"} THEN "_" ELSE LowerChar(name[i])]
    IN  SubSeq(low, 1, IF Len(low) < 20 THEN Len(low) ELSE 20)

\* capture_tag_data.get_reader_id(reader_name): the first key of READER_IDS
\* found in the upper-cased name, or the sanitized name
ctd_get_reader_id(name) ==
    LET up == Upper(name) IN
    IF IsIn(<<"A", "C", "R", "1", "5", "5", "2">>, up) THEN "acr1552u"
    ELSE IF IsIn(<<"A", "C", "R", "1", "2", "2", "U">>, up) THEN "acr122u"
    ELSE IF IsIn(<<"A", "C", "R", "1", "2", "5", "2">>, up) THEN "acr1252u"
    ELSE Sanitized(name)

\* A request as the script sends it.
Request(type, id) == [type |-> type, id |-> id]

\* The reply to list_readers: the readers, native or string-encoded.
ListReply(id, readers, asString) ==
    Dumps(Obj([type |-> "list_readers", id |-> id,
               payload |-> IF asString THEN Str(Dumps(Arr(readers)))
                           ELSE Arr(readers)]))

\* A reply that acknowledges the request.
Ack(type, id) == Dumps(Obj([type |-> type, id |-> id]))

\* A reply that carries an error field.
ErrorReply(type, id) ==
    Dumps(Obj([type |-> type, id |-> id, error |-> "reader unavailable"]))

\* The reader lists the agent may answer with: one reader, or none.
ReaderLists == {<<Obj([name |-> ReaderName])>>, <<>>}

\* What the agent may answer to the request req.
Replies(req) ==
    IF req.type = "list_readers"
    THEN {ListReply(req.id, r, s) : r \in ReaderLists, s \in BOOLEAN}
            \cup {ErrorReply(req.type, req.id)}
    ELSE {Ack(req.type, req.id), ErrorReply(req.type, req.id)}

\* The script awaits the reply to a request: await ws.recv().
AwaitingReply ==
    pc \in {"a_list_reply", "a_sub_reply", "c_list_reply", "c_sub_reply",
            "i_unsub_reply"}

\* The agent may have a subscription: a subscribe was sent to it, and it has
\* answered no unsubscribe.
Subscribed ==
    /\ \E i \in 1..Len(sent) : sent[i].type = "subscribe"
    /\ \A i \in 1..replied : sent[i].type # "unsubscribe"

\* The agent answers the oldest request it has not answered.
AgentReply ==
    /\ AwaitingReply
    /\ replied < Len(sent)
    /\ Len(chan) < MaxChan
    /\ \E r \in Replies(sent[replied + 1]) : chan' = Append(chan, r)
    /\ replied' = replied + 1
    /\ UNCHANGED <<pc, log, written, reader_name, reader_id, responses,
                   clears, outcome, sent, interVars, autoVars>>

\* The agent, subscribed, reports a tag while a reply is awaited.
AgentEvent ==
    /\ AwaitingReply
    /\ Subscribed
    /\ Len(chan) < MaxChan
    /\ \E e \in {CardDetected("04AB", FALSE), CardRemoved} :
          chan' = Append(chan, e)
    /\ UNCHANGED <<pc, log, written, reader_name, reader_id, responses,
                   clears, outcome, rpcVars, interVars, autoVars>>

\* A test that finds every value true.
NeverFalsy(v) == FALSE

\* not v, for a decoded value
Falsy(v) ==
    \/ v.t = "none"
    \/ v.t = "arr" /\ v.v = <<>>
    \/ v.t = "obj" /\ DOMAIN v.v = {}

\* The frame every step of the requests leaves alone.
RpcFrame == UNCHANGED <<log, written, responses, clears, replied,
                        interVars, card, steps, qualified>>

\* await ws.send(json.dumps({"type": "list_readers", "id": "1"}))
SendListReaders ==
    /\ pc = "a_list"
    /\ sent' = Append(sent, Request("list_readers", "1"))
    /\ pc' = "a_list_reply"
    /\ RpcFrame
    /\ UNCHANGED <<chan, reader_name, reader_id, tag_index, last_uid, outcome>>

\* What lines 88-97 make of the text received as the list_readers reply.
ReadersOf(text) ==
    LET resp == Loads(text) IN
    IF ~resp.ok \/ resp.val.t # "obj" THEN [kind |-> "error"]
    ELSE LET payload == Get(resp.val.v, "payload", Arr(<<>>))
             readers == IF payload.t = "str" THEN Loads(payload.v)
                        ELSE [ok |-> TRUE, val |-> payload]
         IN  IF ~readers.ok THEN [kind |-> "error"]
             ELSE IF Falsy(readers.val) THEN [kind |-> "no readers"]
             ELSE IF \/ readers.val.t # "arr"
                     \/ Len(readers.val.v) = 0
                     \/ readers.val.v[1].t # "obj"
                  THEN [kind |-> "error"]
             ELSE [kind |-> "readers",
                   name |-> Get(readers.val.v[1].v, "name", "Unknown")]

\* resp = json.loads(await ws.recv()), up to reader_id = get_reader_id(...)
RecvListReply ==
    /\ pc = "a_list_reply"
    /\ chan # <<>>
    /\ chan' = Tail(chan)
    /\ outcome' = <<"took", Head(chan)>>
    /\ LET r == ReadersOf(Head(chan)) IN
       CASE r.kind = "error" ->
              pc' = "error" /\ UNCHANGED <<reader_name, reader_id>>
         [] r.kind = "no readers" ->
              pc' = "a_no_readers" /\ UNCHANGED <<reader_name, reader_id>>
         [] r.kind = "readers" ->
              /\ reader_name' = r.name
              /\ reader_id' = get_reader_id(r.name)
              /\ pc' = "a_sub"
    /\ RpcFrame
    /\ UNCHANGED <<tag_index, last_uid, sent>>

\* await ws.send(json.dumps({"type": "subscribe", "id": "2", ...}))
SendSubscribe ==
    /\ pc = "a_sub"
    /\ sent' = Append(sent, Request("subscribe", "2"))
    /\ pc' = "a_sub_reply"
    /\ RpcFrame
    /\ UNCHANGED <<chan, reader_name, reader_id, tag_index, last_uid, outcome>>

\* await ws.recv(), then last_uid = None, tag_index = 0 and the loop condition
RecvSubscribeReply ==
    /\ pc = "a_sub_reply"
    /\ chan # <<>>
    /\ chan' = Tail(chan)
    /\ outcome' = <<"took", Head(chan)>>
    /\ last_uid' = None
    /\ tag_index' = 0
    /\ pc' = LoopHead(0)
    /\ RpcFrame
    /\ UNCHANGED <<reader_name, reader_id, sent>>

\* capture_tag_data.list_readers: await ws.send(json.dumps(msg))
CtdSendListReaders ==
    /\ pc = "c_list"
    /\ sent' = Append(sent, Request("list_readers", "list-1"))
    /\ pc' = "c_list_reply"
    /\ RpcFrame
    /\ UNCHANGED <<chan, reader_name, reader_id, tag_index, last_uid, outcome>>

\* What list_readers and main make of the text received as the reply.
CtdReadersOf(text) ==
    LET data == Loads(text) IN
    IF ~data.ok \/ data.val.t # "obj" THEN [kind |-> "error"]
    ELSE IF "error" \in DOMAIN data.val.v THEN [kind |-> "no readers"]
    ELSE LET payload == Get(data.val.v, "payload", Str(Dumps(Arr(<<>>)))) IN
         IF payload.t # "str" THEN [kind |-> "error"]
         ELSE LET readers == Loads(payload.v) IN
              IF ~readers.ok THEN [kind |-> "error"]
              ELSE IF Falsy(readers.val) THEN [kind |-> "no readers"]
              ELSE IF \/ readers.val.t # "arr"
                      \/ Len(readers.val.v) = 0
                      \/ readers.val.v[1].t # "obj"
                   THEN [kind |-> "crash"]
              ELSE [kind |-> "readers",
                    name |-> Get(readers.val.v[1].v, "name", "Unknown")]

\* readers = await list_readers(ws), the selection of reader 0, and
\* reader_id = get_reader_id(reader_name) in capture_tags_for_reader
CtdRecvListReply ==
    /\ pc = "c_list_reply"
    /\ chan # <<>>
    /\ chan' = Tail(chan)
    /\ outcome' = <<"took", Head(chan)>>
    /\ LET r == CtdReadersOf(Head(chan)) IN
       CASE r.kind = "error" ->
              pc' = "error" /\ UNCHANGED <<reader_name, reader_id>>
         [] r.kind = "crash" ->
              pc' = "crash" /\ UNCHANGED <<reader_name, reader_id>>
         [] r.kind = "no readers" ->
              pc' = "c_no_readers" /\ UNCHANGED <<reader_name, reader_id>>
         [] r.kind = "readers" ->
              /\ reader_name' = r.name
              /\ reader_id' = ctd_get_reader_id(r.name)
              /\ pc' = "c_sub"
    /\ RpcFrame
    /\ UNCHANGED <<tag_index, last_uid, sent>>

\* subscribe_to_reader: await ws.send(json.dumps(msg))
CtdSendSubscribe ==
    /\ pc = "c_sub"
    /\ sent' = Append(sent, Request("subscribe", "sub-1"))
    /\ pc' = "c_sub_reply"
    /\ RpcFrame
    /\ UNCHANGED <<chan, reader_name, reader_id, tag_index, last_uid, outcome>>

\* subscribe_to_reader: the reply, and "if not await subscribe_to_reader(...)"
CtdRecvSubscribeReply ==
    /\ pc = "c_sub_reply"
    /\ chan # <<>>
    /\ chan' = Tail(chan)
    /\ outcome' = <<"took", Head(chan)>>
    /\ LET data == Loads(Head(chan)) IN
       pc' = IF ~data.ok \/ data.val.t # "obj" THEN "crash"
             ELSE IF "error" \in DOMAIN data.val.v THEN "c_sub_failed"
             ELSE ForHead(0)
    /\ RpcFrame
    /\ UNCHANGED <<reader_name, reader_id, tag_index, last_uid, sent>>

\* unsubscribe_from_reader: await ws.send(json.dumps(msg))
SendUnsubscribe ==
    /\ pc = "i_unsub"
    /\ sent' = Append(sent, Request("unsubscribe", "unsub-1"))
    /\ pc' = "i_unsub_reply"
    /\ RpcFrame
    /\ UNCHANGED <<chan, reader_name, reader_id, tag_index, last_uid, outcome>>

\* unsubscribe_from_reader: await ws.recv(), and the end of the run
RecvUnsubscribeReply ==
    /\ pc = "i_unsub_reply"
    /\ chan # <<>>
    /\ chan' = Tail(chan)
    /\ outcome' = <<"took", Head(chan)>>
    /\ pc' = "i_done"
    /\ RpcFrame
    /\ UNCHANGED <<reader_name, reader_id, tag_index, last_uid, sent>>

\* The start of auto_capture.main, the start of capture_tag_data.main, or
\* capture_tags_for_reader after its for loop.
InitRpc ==
    /\ \/ pc \in {"a_list", "c_list"} /\ sent = <<>> /\ replied = 0
                                      /\ reader_name = <<>>
                                      /\ reader_id = ""
       \/ /\ pc = "i_unsub"
          /\ sent = <<Request("list_readers", "list-1"),
                      Request("subscribe", "sub-1")>>
          /\ replied = 2
          /\ reader_name = ReaderName
          /\ reader_id = ctd_get_reader_id(ReaderName)
    /\ chan = <<>>
    /\ log \in StaleLogs
    /\ written = <<>>
    /\ tag_index = 0
    /\ last_uid = None
    /\ card = EmptyDict
    /\ responses = EmptyDict
    /\ steps = <<>>
    /\ clears = 0
    /\ qualified = 0
    /\ outcome = <<>>
    /\ iter = 0
    /\ card_data = NoValue
    /\ removed_since = FALSE

\* The steps of the scripts around their requests.
ScriptRpc ==
    \/ SendListReaders
    \/ RecvListReply
    \/ SendSubscribe
    \/ RecvSubscribeReply
    \/ CtdSendListReaders
    \/ CtdRecvListReply
    \/ CtdSendSubscribe
    \/ CtdRecvSubscribeReply
    \/ SendUnsubscribe
    \/ RecvUnsubscribeReply

NextRpc ==
    \/ AgentReply
    \/ AgentEvent
    \/ SendListReaders
    \/ RecvListReply
    \/ SendSubscribe
    \/ RecvSubscribeReply
    \/ CtdSendListReaders
    \/ CtdRecvListReply
    \/ CtdSendSubscribe
    \/ CtdRecvSubscribeReply
    \/ SendUnsubscribe
    \/ RecvUnsubscribeReply

SpecRpc == InitRpc /\ [][NextRpc]_vars

-----------------------------------------------------------------------------
(* The capture log as text: parse_capture_log() and clear_capture_log() on  *)
(* the characters of the file.  A file is NoFile or the sequence of its     *)
(* lines, a line the sequence of its characters, its line end included.     *)

\* s.lower()
LowerStr(s) == [i \in 1..Len(s) |-> LowerChar(s[i])]

\* s.strip(): the blanks, tabs and line ends at both ends are removed
RECURSIVE Strip(_)
Strip(s) ==
    IF s = <<>> THEN s
    ELSE IF Head(s) \in {" ", "\n", "\r", "\t"} THEN Strip(Tail(s))
    ELSE IF s[Len(s)] \in {" ", "\n", "\r", "\t"}
         THEN Strip(SubSeq(s, 1, Len(s) - 1))
    ELSE s

\* s.split(sep), sep not empty: the pieces between the occurrences of sep,
\* found from the left
RECURSIVE Split(_, _)
Split(s, sep) ==
    IF ~IsIn(sep, s) THEN <<s>>
    ELSE LET i == CHOOSE k \in 0..(Len(s) - Len(sep)) :
                     /\ SubSeq(s, k + 1, k + Len(sep)) = sep
                     /\ \A j \in 0..(k - 1) :
                            SubSeq(s, j + 1, j + Len(sep)) # sep
         IN  <<SubSeq(s, 1, i)>>
                 \o Split(SubSeq(s, i + Len(sep) + 1, Len(s)), sep)

\* " | "
Delimiter == <<" ", "|", " ">>

\* "cmd=" and "rsp="
CmdMarker == <<"c", "m", "d", "=">>
RspMarker == <<"r", "s", "p", "=">>

\* A parse that keeps the first line of an operation name.
RECURSIVE ParseTextFirstWins(_, _)
ParseTextFirstWins(lines, acc) ==
    IF lines = <<>> THEN acc
    ELSE LET parts == Split(Strip(Head(lines)), Delimiter)
         IN  ParseTextFirstWins(Tail(lines),
                 IF Len(parts) >= 4 /\ LowerStr(parts[2]) \notin DOMAIN acc
                 THEN Put(acc, LowerStr(parts[2]),
                          Remove(parts[4], RspMarker))
                 ELSE acc)

\* auto_capture.parse_capture_log(), the loop over the lines:
\* parts = line.strip().split(" | "); if len(parts) >= 4:
\* responses[parts[1].lower()] = parts[3].replace("rsp=", "")
RECURSIVE ParseText(_, _)
ParseText(lines, acc) ==
    IF lines = <<>> THEN acc
    ELSE LET parts == Split(Strip(Head(lines)), Delimiter)
         IN  ParseText(Tail(lines),
                 IF Len(parts) >= 4
                 THEN Put(acc, LowerStr(parts[2]),
                          Remove(parts[4], RspMarker))
                 ELSE acc)

\* capture_tag_data.parse_capture_log(), the loop over the lines: a blank
\* line is skipped, and the value holds the command too
RECURSIVE CtdParseText(_, _)
CtdParseText(lines, acc) ==
    IF lines = <<>> THEN acc
    ELSE LET line == Strip(Head(lines))
             parts == Split(line, Delimiter)
         IN  CtdParseText(Tail(lines),
                 IF line # <<>> /\ Len(parts) >= 4
                 THEN Put(acc, LowerStr(parts[2]),
                          [cmd |-> Remove(parts[3], CmdMarker),
                           rsp |-> Remove(parts[4], RspMarker)])
                 ELSE acc)

\* parse_capture_log() of either script on a file read as text
parse_text(variant, file) ==
    IF file = NoFile THEN EmptyDict
    ELSE IF variant = "auto" THEN ParseText(file, EmptyDict)
    ELSE CtdParseText(file, EmptyDict)

\* The operation names the agent logs.
OpRead == <<"R", "E", "A", "D">>
OpReadMixed == <<"R", "e", "a", "d">>
OpErase == <<"E", "R", "A", "S", "E">>

\* The fields of a full line: timestamp, operation, cmd=0b, rsp=0b.
FullLine(op, b) ==
    <<<<"t", "0">>, op, CmdMarker \o <<"0", b>>, RspMarker \o <<"0", b>>>>

\* The field lists of the lines a log may hold: full lines (two of them for
\* one operation name in different letter case, one with a fifth field, one
\* with an empty response, one whose response has no marker), lines cut
\* after three, two and one field, and a blank line.
LineFields ==
    {FullLine(OpRead, "1"),
     FullLine(OpReadMixed, "2"),
     Append(FullLine(OpErase, "3"), <<"x">>),
     [FullLine(OpRead, "1") EXCEPT ![4] = RspMarker],
     [FullLine(OpErase, "3") EXCEPT ![4] = <<"0", "4">>],
     SubSeq(FullLine(OpRead, "1"), 1, 3),
     SubSeq(FullLine(OpRead, "1"), 1, 2),
     SubSeq(FullLine(OpRead, "1"), 1, 1),
     << <<>> >>}

\* The fields joined by the delimiter.
RECURSIVE Join(_)
Join(fs) ==
    IF Len(fs) = 1 THEN fs[1] ELSE fs[1] \o Delimiter \o Join(Tail(fs))

\* The line the agent writes for the fields, and the same line with
\* surrounding blanks and a carriage return.
LineText(fs, padded) ==
    IF padded THEN <<" ">> \o Join(fs) \o <<" ", "\r", "\n">>
    ELSE Join(fs) \o <<"\n">>

\* The lines a log may hold.
TextLines ==
    {LineText(fs, FALSE) : fs \in LineFields}
        \cup {LineText(FullLine(OpRead, "1"), TRUE)}

\* The logs of up to n lines.
TextLogs(n) == UNION {[1..k -> TextLines] : k \in 0..n}

\* The frame of the steps on the log as text.
LogFrame == UNCHANGED <<chan, written, reader_name, reader_id, outcome,
                        interVars, autoVars, rpcVars>>

\* responses = parse_capture_log()
ReadLog ==
    /\ pc \in {"la_idle", "lc_idle"}
    /\ responses' = parse_text(IF pc = "la_idle" THEN "auto" ELSE "ctd", log)
    /\ pc' = IF pc = "la_idle" THEN "la_read" ELSE "lc_read"
    /\ UNCHANGED <<log, clears>>
    /\ LogFrame

\* clear_capture_log()
ClearLog ==
    /\ pc \in {"la_idle", "la_read", "lc_idle", "lc_read"}
    /\ log' = clear_capture_log(log)
    /\ clears' = clears + 1
    /\ pc' = IF pc \in {"la_idle", "la_read"} THEN "la_cleared"
             ELSE "lc_cleared"
    /\ UNCHANGED responses
    /\ LogFrame

\* responses = parse_capture_log(), right after clear_capture_log()
ReadClearedLog ==
    /\ pc \in {"la_cleared", "lc_cleared"}
    /\ responses' = parse_text(IF pc = "la_cleared" THEN "auto" ELSE "ctd",
                               log)
    /\ pc' = IF pc = "la_cleared" THEN "la_reread" ELSE "lc_reread"
    /\ UNCHANGED <<log, clears>>
    /\ LogFrame

\* Either script about to call its log functions, on any log.  The history
\* variable steps keeps the log as it was found.
InitLog ==
    /\ pc \in {"la_idle", "lc_idle"}
    /\ log \in {NoFile} \cup TextLogs(MaxTextLines)
    /\ steps = log
    /\ chan = <<>>
    /\ written = <<>>
    /\ reader_name = "ACS ACR122U"
    /\ reader_id = "acr122u"
    /\ tag_index = 0
    /\ last_uid = None
    /\ card = EmptyDict
    /\ responses = EmptyDict
    /\ clears = 0
    /\ qualified = 0
    /\ outcome = <<>>
    /\ iter = 0
    /\ card_data = NoValue
    /\ removed_since = FALSE
    /\ sent = <<>>
    /\ replied = 0

NextLog ==
    \/ ReadLog
    \/ ClearLog
    \/ ReadClearedLog

SpecLog == InitLog /\ [][NextLog]_vars

-----------------------------------------------------------------------------
(* get_reader_id() of the three scripts, on the display names an agent may  *)
(* report.                                                                  *)

\* The display names: a vendor prefix or none, a model designation (with
\* or without "ACR", in either letter case) or none, and an interface
\* suffix, short, long or none.
ReaderNames ==
    {p \o m \o x :
        p \in {<<>>, <<"A", "C", "S", " ">>},
        m \in {<<"1", "2", "2", "U">>, <<"1", "2", "2", "u">>,
               <<"A", "C", "R", "1", "2", "2", "U">>,
               <<"a", "c", "r", "1", "2", "2", "u">>,
               <<"A", "C", "R", "1", "5", "5", "2">>,
               <<"1", "5", "5", "2">>,
               <<"A", "C", "R", "1", "2", "5", "2">>,
               <<"1", "2", "5", "2">>,
               <<"R", "e", "a", "d", "e", "r">>, <<>>},
        x \in {<<>>, <<" ", "P", "I", "C", "C">>,
               <<"/", "C", "o", "n", "t", "a", "c", "t", "l", "e", "s", "s", " ">>
                   \o <<"S", "m", "a", "r", "t", " ", "C", "a", "r", "d", " ", "R", "e", "a", "d", "e", "r">>}}

\* reader_id = get_reader_id(reader_name), in auto_capture and capture_one
DeriveReaderId ==
    /\ pc \in {"ga_name", "go_name"}
    /\ reader_id' = get_reader_id(reader_name)
    /\ pc' = IF pc = "ga_name" THEN "ga_id" ELSE "go_id"
    /\ UNCHANGED <<chan, log, written, reader_name, responses, clears,
                   outcome, interVars, autoVars, rpcVars>>

\* reader_id = get_reader_id(reader_name), in capture_tag_data
CtdDeriveReaderId ==
    /\ pc = "gc_name"
    /\ reader_id' = ctd_get_reader_id(reader_name)
    /\ pc' = "gc_id"
    /\ UNCHANGED <<chan, log, written, reader_name, responses, clears,
                   outcome, interVars, autoVars, rpcVars>>

\* One of the scripts has the display name of its reader.
InitId ==
    /\ pc \in {"ga_name", "go_name", "gc_name"}
    /\ reader_name \in ReaderNames
    /\ reader_id = ""
    /\ chan = <<>>
    /\ log = NoFile
    /\ written = <<>>
    /\ tag_index = 0
    /\ last_uid = None
    /\ card = EmptyDict
    /\ responses = EmptyDict
    /\ steps = <<>>
    /\ clears = 0
    /\ qualified = 0
    /\ outcome = <<>>
    /\ iter = 0
    /\ card_data = NoValue
    /\ removed_since = FALSE
    /\ sent = <<>>
    /\ replied = 0

NextId ==
    \/ DeriveReaderId
    \/ CtdDeriveReaderId

SpecId == InitId /\ [][NextId]_vars

-----------------------------------------------------------------------------
(* test_write.py: the write tests against the agent's HTTP interface.  The  *)
(* history variable steps keeps every write and read request with its       *)
(* response; outcome holds what the running test is going to return, then   *)
(* what main reports.                                                       *)

\* The type label the agent gives a MIFARE Classic.
TypeClassic ==
    <<"M", "I", "F", "A", "R", "E", " ", "C", "l", "a", "s", "s", "i",
    "c">>
\* test_data of test_ultralight_write and of test_mifare_classic_write
UlTestData == <<"D", "E", "A", "D", "B", "E", "E", "F">>
ClassicTestData ==
    <<"0", "0", "1", "1", "2", "2", "3", "3", "4", "4", "5", "5", "6",
    "6", "7", "7", "8", "8", "9", "9", "A", "A", "B", "B", "C", "C", "D",
    "D", "E", "E", "F", "F">>

\* batch_blocks of test_mifare_classic_batch_write
BatchBlocks ==
    <<[block |-> 4,
       data |-> <<"A", "A", "A", "A", "B", "B", "B", "B", "C", "C", "C", "C", "D",
               "D", "D", "D", "E", "E", "E", "E", "F", "F", "F", "F", "A", "A", "A",
               "A", "B", "B", "B", "B">>],
      [block |-> 5,
       data |-> <<"1", "1", "1", "1", "2", "2", "2", "2", "3", "3", "3", "3", "4",
               "4", "4", "4", "5", "5", "5", "5", "6", "6", "6", "6", "7", "7", "7",
               "7", "8", "8", "8", "8">>],
      [block |-> 8,
       data |-> <<"D", "E", "A", "D", "B", "E", "E", "F", "D", "E", "A", "D", "B",
               "E", "E", "F", "D", "E", "A", "D", "B", "E", "E", "F", "D", "E", "A",
               "D", "B", "E", "E", "F">>]>>

\* What a read request may come back with for a value that was written: the
\* value in upper or lower case, zeros, a body without data, or a failure.
ReadResponses(value) ==
    {[status |-> 200, data |-> value],
     [status |-> 200, data |-> LowerStr(value)],
     [status |-> 200, data |-> [i \in 1..Len(value) |-> "0"]],
     [status |-> 200, data |-> <<>>],
     [status |-> 500, data |-> <<>>]}

\* What a batch write may come back with: a failure, or the result of each
\* item (all written, or the last one not).
BatchResponses ==
    {[status |-> 200, results |-> <<TRUE, TRUE, TRUE>>],
     [status |-> 200, results |-> <<TRUE, TRUE, FALSE>>],
     [status |-> 500, results |-> <<>>]}

\* The record of a read request for a value written, with its response.
ReadStep(expected, r) ==
    [op |-> "read", status |-> r.status, results |-> <<>>,
     expected |-> expected, data |-> r.data]

\* The record of a write request, with its response.
WriteStep(status, results) ==
    [op |-> "write", status |-> status, results |-> results,
     expected |-> <<>>, data |-> <<>>]

\* The frame of the write tests.
WriteFrame == UNCHANGED <<chan, log, written, reader_name, reader_id,
                          responses, clears, tag_index, last_uid, qualified,
                          interVars, rpcVars>>

\* main: readers = get_readers(), and "if not readers"
MainGetReaders ==
    /\ pc = "wm_readers"
    /\ \E r \in {"refused", "none", "one"} :
          pc' = IF r = "one" THEN "wm_card" ELSE "wm_exit"
    /\ outcome' = IF pc' = "wm_exit" THEN <<"exit", 1>> ELSE outcome
    /\ UNCHANGED <<card, steps>>
    /\ WriteFrame

\* main: card = get_card(0), and the choice of the test by the card type
MainGetCard ==
    /\ pc = "wm_card"
    /\ \/ /\ pc' = "wm_exit"
          /\ outcome' = <<"exit", 1>>
          /\ UNCHANGED card
       \/ \E t \in {TypeNtag213, TypeClassic,
                    <<"F", "e", "l", "i", "C", "a">>} :
             /\ card' = [uid |-> "04AB", type |-> t]
             /\ pc' = IF IsIn(<<"N", "T", "A", "G">>, t)
                         \/ IsIn(<<"U", "l", "t", "r", "a", "l", "i", "g",
                                   "h", "t">>, t)
                      THEN "wu_card"
                      ELSE IF IsIn(<<"C", "l", "a", "s", "s", "i", "c">>, t)
                      THEN "wc_card"
                      ELSE "wu_card"
             /\ UNCHANGED outcome
    /\ UNCHANGED steps
    /\ WriteFrame

\* test_ultralight_write / test_mifare_classic_write: card = get_card(),
\* "if not card: return False"
TestGetCard ==
    /\ pc \in {"wu_card", "wc_card"}
    /\ \E present \in BOOLEAN :
          /\ pc' = IF ~present THEN "wm_report"
                   ELSE IF pc = "wu_card" THEN "wu_write" ELSE "wc_write"
          /\ outcome' = IF present THEN outcome ELSE <<"returned", FALSE>>
    /\ UNCHANGED <<card, steps>>
    /\ WriteFrame

\* test_ultralight_write: the single page write, lines 42-51
UlWrite ==
    /\ pc = "wu_write"
    /\ \E st \in {200, 500} :
          /\ steps' = Append(steps, WriteStep(st, <<>>))
          /\ pc' = IF st = 200 THEN "wu_read" ELSE "wm_report"
          /\ outcome' = IF st = 200 THEN outcome ELSE <<"returned", FALSE>>
    /\ UNCHANGED card
    /\ WriteFrame

\* test_ultralight_write: the read-back, lines 55-65: what it finds is
\* printed, and the test goes on to the batch write whatever it was
UlRead ==
    /\ pc = "wu_read"
    /\ \E r \in ReadResponses(UlTestData) :
          steps' = Append(steps, ReadStep(UlTestData, r))
    /\ pc' = "wu_batch"
    /\ UNCHANGED <<card, outcome>>
    /\ WriteFrame

\* test_ultralight_write: the batch write, lines 75-91
UlBatchWrite ==
    /\ pc = "wu_batch"
    /\ \E r \in BatchResponses :
          /\ steps' = Append(steps, WriteStep(r.status, r.results))
          /\ pc' = IF r.status = 200 THEN "wu_cleanup" ELSE "wm_report"
          /\ outcome' = IF r.status = 200 THEN outcome
                        ELSE <<"returned", FALSE>>
    /\ UNCHANGED card
    /\ WriteFrame

\* test_ultralight_write: the cleanup and "return True", lines 101-108
UlCleanup ==
    /\ pc = "wu_cleanup"
    /\ pc' = "wm_report"
    /\ outcome' = <<"returned", TRUE>>
    /\ UNCHANGED <<card, steps>>
    /\ WriteFrame

\* test_mifare_classic_write: the block write, lines 137-151
ClassicWrite ==
    /\ pc = "wc_write"
    /\ \E st \in {200, 500} :
          /\ steps' = Append(steps, WriteStep(st, <<>>))
          /\ pc' = IF st = 200 THEN "wc_read" ELSE "wm_report"
          /\ outcome' = IF st = 200 THEN outcome ELSE <<"returned", FALSE>>
    /\ UNCHANGED card
    /\ WriteFrame

\* test_mifare_classic_write: the read-back and the cleanup, lines 155-181
ClassicRead ==
    /\ pc = "wc_read"
    /\ \E r \in ReadResponses(ClassicTestData) :
          steps' = Append(steps, ReadStep(ClassicTestData, r))
    /\ pc' = "wb_write"
    /\ UNCHANGED <<card, outcome>>
    /\ WriteFrame

\* test_mifare_classic_batch_write: the batch write, lines 207-228, and
\* all_verified = True; a False is handed on by test_mifare_classic_write
BatchWrite ==
    /\ pc = "wb_write"
    /\ \E r \in BatchResponses :
          /\ steps' = Append(steps, WriteStep(r.status, r.results))
          /\ pc' = IF r.status = 200 THEN "wb_verify" ELSE "wm_report"
          /\ outcome' = IF r.status = 200 THEN <<"verifying", TRUE>>
                        ELSE <<"returned", FALSE>>
          /\ iter' = IF r.status = 200 THEN 1 ELSE iter
    /\ UNCHANGED <<card, card_data, removed_since>>
    /\ UNCHANGED <<chan, log, written, reader_name, reader_id,
                   responses, clears, tag_index, last_uid, qualified,
                   rpcVars>>

\* test_mifare_classic_batch_write: one pass of the verification loop,
\* lines 233-249, and after the last one the cleanup and
\* "return all_verified"
BatchVerify ==
    /\ pc = "wb_verify"
    /\ \E r \in ReadResponses(BatchBlocks[iter].data) :
          LET expected == Upper(BatchBlocks[iter].data)
              all_verified ==
                  outcome[2] /\ r.status = 200 /\ Upper(r.data) = expected
          IN  /\ steps' = Append(steps, ReadStep(expected, r))
              /\ IF iter < Len(BatchBlocks)
                 THEN /\ iter' = iter + 1
                      /\ pc' = "wb_verify"
                      /\ outcome' = <<"verifying", all_verified>>
                 ELSE /\ iter' = iter
                      /\ pc' = "wm_report"
                      /\ outcome' = <<"returned", all_verified>>
    /\ UNCHANGED <<card, card_data, removed_since>>
    /\ UNCHANGED <<chan, log, written, reader_name, reader_id,
                   responses, clears, tag_index, last_uid, qualified,
                   rpcVars>>

\* main: the report, and "return 0 if success else 1"
MainReport ==
    /\ pc = "wm_report"
    /\ pc' = "wm_exit"
    /\ outcome' = <<"exit", IF outcome[2] THEN 0 ELSE 1>>
    /\ UNCHANGED <<card, steps>>
    /\ WriteFrame

\* main is started.
InitWrite ==
    /\ pc = "wm_readers"
    /\ chan = <<>>
    /\ log = NoFile
    /\ written = <<>>
    /\ reader_name = "ACS ACR122U"
    /\ reader_id = "acr122u"
    /\ tag_index = 0
    /\ last_uid = None
    /\ card = EmptyDict
    /\ responses = EmptyDict
    /\ steps = <<>>
    /\ clears = 0
    /\ qualified = 0
    /\ outcome = <<>>
    /\ iter = 0
    /\ card_data = NoValue
    /\ removed_since = FALSE
    /\ sent = <<>>
    /\ replied = 0

NextWrite ==
    \/ MainGetReaders
    \/ MainGetCard
    \/ TestGetCard
    \/ UlWrite
    \/ UlRead
    \/ UlBatchWrite
    \/ UlCleanup
    \/ ClassicWrite
    \/ ClassicRead
    \/ BatchWrite
    \/ BatchVerify
    \/ MainReport

SpecWrite == InitWrite /\ [][NextWrite]_vars

-----------------------------------------------------------------------------
(* Properties of the automatic capture loop. *)

\* The loop receives the text e in this step.
Receives(e) ==
    /\ pc = "recv"
    /\ chan # <<>>
    /\ Head(chan) = e
    /\ chan' = Tail(chan)

\* The card_detected envelopes that carry uid.
DetectedWith(uid) == {CardDetected(uid, s) : s \in BOOLEAN}

\* A capture is in progress: a detection was accepted, the index not advanced.
Capturing == pc \in {"settle", "parse", "save", "clear", "advance"}

\* C1: a card_detected whose UID equals the remembered UID changes nothing:
\* the index is not advanced, no fixture is written, the remembered UID, the
\* log and the loop's position stay as they are.
C1_DebounceSameUid ==
    [][\A u \in UIDs : \A e \in DetectedWith(u) :
          (Receives(e) /\ last_uid = u) =>
              /\ pc' = "recv"
              /\ UNCHANGED <<tag_index, written, last_uid, log, card, responses, steps, clears, qualified>>]_vars

\* C1: the loop has just ignored a card_detected carrying the remembered UID,
\* after a capture.
C1_Witness ==
    /\ pc = "recv"
    /\ tag_index >= 1
    /\ last_uid \in UIDs
    /\ outcome = <<"ignore", TRUE>>

\* C2: the index starts at 0 and changes only by +1, and only when the
\* fixture of profile tag_index has been written; when the write fails the
\* index stays.
C2_IndexFollowsWrite ==
    /\ tag_index = 0
    /\ [][/\ tag_index' # tag_index =>
                /\ tag_index' = tag_index + 1
                /\ Len(written) = tag_index + 1
                /\ written[tag_index + 1].path[2] = TAGS[tag_index + 1][2]
                /\ written[tag_index + 1].tag_type = TAGS[tag_index + 1][1]
          /\ (pc = "save" /\ pc' = "error") => tag_index' = tag_index
          /\ pc = "error" => tag_index' = tag_index]_vars

\* C2: the index has advanced past the first profile.
C2_Witness == tag_index >= 2 /\ Len(written) = tag_index

\* The last fixture written.
LastWritten == written[Len(written)]

\* C4: when every profile has had its one qualifying detection and its
\* capture has run to the end, the run is complete with exactly one fixture
\* per profile, the k-th under the k-th profile's slug and label; the loop
\* does not complete earlier.
C4_OneFixturePerProfile ==
    /\ pc \in {"recv", "done"} =>
          /\ qualified = tag_index
          /\ Len(written) = tag_index
    /\ (pc \in {"recv", "done"} /\ qualified = Len(TAGS)) => pc = "done"
    /\ pc = "done" =>
          /\ tag_index = Len(TAGS)
          /\ Len(written) = Len(TAGS)
          /\ Cardinality({written[k].path : k \in 1..Len(written)})
                = Len(TAGS)
    /\ \A k \in 1..Len(written) :
          /\ written[k].path = <<reader_id, TAGS[k][2]>>
          /\ written[k].tag_type = TAGS[k][1]

\* C4: the run is complete.
C4_Witness == pc = "done" /\ qualified = Len(TAGS)

\* C5: a card_removed clears the remembered UID and changes nothing else;
\* with the remembered UID cleared, a card_detected with any non-empty UID
\* (that of the tag captured before included) starts a capture, and what a
\* capture writes is the fixture of the current profile with that UID, after
\* which the index advances.
C5_RemovedForgets ==
    /\ [][/\ Receives(CardRemoved) =>
                /\ last_uid' = None
                /\ pc' = "recv"
                /\ UNCHANGED <<tag_index, written, log, card,
                               responses, steps, clears, qualified>>
          /\ \A u \in UIDs : \A e \in DetectedWith(u) :
                (Receives(e) /\ last_uid = None) =>
                    /\ pc' = "settle"
                    /\ last_uid' = u
                    /\ Get(card', "uid", "") = u
          /\ written' # written =>
                /\ written' = Append(written, LastWritten')
                /\ LastWritten'.uid = last_uid
                /\ LastWritten'.path[2] = TAGS[tag_index + 1][2]
          /\ (pc = "advance" /\ pc' # pc) => tag_index' = tag_index + 1]_vars
    /\ [](pc \in {"settle", "parse", "save"} => Len(written) = tag_index)

\* C5: after a removal the tag captured for the previous profile was
\* presented again, captured for the next profile, and the index advanced.
C5_Witness ==
    /\ pc = "recv"
    /\ tag_index >= 2
    /\ outcome = <<"capture", FALSE>>
    /\ written[tag_index].uid = written[tag_index - 1].uid

\* C6: a card_detected with a non-empty UID that differs from a remembered
\* UID (no card_removed since the capture of that one) starts a capture while
\* profiles remain, and what the capture writes is the fixture of the next
\* profile with the second UID, after which the index advances.
C6_BackToBack ==
    /\ [][/\ \A u \in UIDs : \A e \in DetectedWith(u) :
                (Receives(e) /\ last_uid \in UIDs \ {u}) =>
                    /\ pc' = "settle"
                    /\ last_uid' = u
                    /\ Get(card', "uid", "") = u
                    /\ tag_index' = tag_index
          /\ (pc = "save" /\ written' # written) =>
                /\ LastWritten'.uid = Get(card, "uid", "")
                /\ LastWritten'.path = <<reader_id, TAGS[tag_index + 1][2]>>
                /\ pc' = "clear"
          /\ (pc = "clear" /\ pc' # pc) => pc' = "advance"
          /\ (pc = "advance" /\ pc' # pc) =>
                /\ tag_index' = tag_index + 1
                /\ Len(written) = tag_index + 1]_vars
    /\ [](pc = "recv" => tag_index < Len(TAGS))

\* C6: two tags with distinct UIDs were captured for consecutive profiles
\* with no card_removed between them.
C6_Witness ==
    /\ pc \in {"recv", "done"}
    /\ tag_index >= 2
    /\ outcome = <<"capture", TRUE>>
    /\ written[tag_index - 1].uid \in UIDs
    /\ written[tag_index].uid \in UIDs \ {written[tag_index - 1].uid}

\* C8: every entry of every fixture was logged within that fixture's capture
\* window: after the run started (first profile) or after the previous clear.
C8_WindowStartsEmpty ==
    \A k \in 1..Len(written) :
        \A m \in DOMAIN written[k].responses :
            written[k].responses[m] = k

\* The same for the profiles after the first only.
C8_LaterWindowsStartEmpty ==
    \A k \in 2..Len(written) :
        \A m \in DOMAIN written[k].responses :
            written[k].responses[m] = k

\* The steps of one capture, in the order of the loop body.
CaptureOrder == <<"detected", "settle", "parse", "save", "clear", "advance">>

\* C9: the steps of a capture happen in the order detection, settling wait,
\* snapshot, fixture write, clear, index advance: the log is cleared only
\* when the snapshot taken from it is in the fixture written for the current
\* profile, and the index advances only after that clear.
C9_CaptureOrder ==
    /\ [](steps = SubSeq(CaptureOrder, 1, Len(steps)))
    /\ [][/\ responses' # responses => steps = SubSeq(CaptureOrder, 1, 2)
          /\ written' # written =>
                /\ steps = SubSeq(CaptureOrder, 1, 3)
                /\ LastWritten'.responses = responses
          /\ (clears' # clears \/ (log' = NoFile /\ log # NoFile)) =>
                /\ steps = SubSeq(CaptureOrder, 1, 4)
                /\ Len(written) = tag_index + 1
                /\ LastWritten.responses = responses
          /\ tag_index' # tag_index =>
                /\ steps = SubSeq(CaptureOrder, 1, 5)
                /\ clears = tag_index + 1]_vars

\* C9: a capture has run through all its steps.
C9_Witness ==
    /\ steps = CaptureOrder
    /\ tag_index >= 1
    /\ DOMAIN LastWritten.responses # {}

\* C10 as stated: in every state the remembered UID is empty or the UID of
\* the most recently written fixture.
C10_LastUidIsLastFixture ==
    \/ last_uid = None
    \/ written # <<>> /\ last_uid = LastWritten.uid

\* C10 as amended: that holds whenever no capture is in progress (the loop is
\* at its receive or has completed); the remembered UID changes only on a
\* card_removed (to empty) or when a detection with a differing non-empty UID
\* starts a capture, and the index advance keeps it at the UID of the fixture
\* just written.
C10_LastUidBetweenCaptures ==
    /\ [](pc \in {"recv", "done"} => C10_LastUidIsLastFixture)
    /\ [][/\ last_uid' # last_uid =>
                \/ Receives(CardRemoved) /\ last_uid' = None
                \/ \E u \in UIDs \ {last_uid} : \E e \in DetectedWith(u) :
                      Receives(e) /\ last_uid' = u
          /\ tag_index' # tag_index =>
                /\ last_uid' = last_uid
                /\ last_uid = LastWritten.uid]_vars

\* C10: after the index advance the remembered UID is still that of the
\* fixture just written.
C10_Witness ==
    /\ pc = "recv"
    /\ tag_index >= 1
    /\ outcome # <<>>
    /\ outcome[1] = "capture"
    /\ last_uid = LastWritten.uid

-----------------------------------------------------------------------------
(* Properties of the interactive variant. *)

\* C3 as stated: every profile the iteration has moved on from has a fixture.
C3_NeverMovesOnWithoutFixture ==
    \A k \in 1..iter :
        \E j \in 1..Len(written) :
            written[j].path = <<reader_id, tags_to_capture[k][2]>>

\* C3 as amended: the iteration moves on by one profile at a time, and from a
\* profile only when its fixture has been written, or when the profile is
\* given up: the second wait found no card, the operator declined the retry
\* after a wait that found no card, or the operator declined to save a type
\* mismatch.  At most one fixture is written per profile, under its slug.
C3_MovesOnAfterFixtureOrSkip ==
    /\ [][iter' # iter =>
            /\ iter' = iter + 1
            /\ \/ /\ pc = "i_sleep"
                  /\ written # <<>>
                  /\ LastWritten.path = <<reader_id, tags_to_capture[iter + 1][2]>>
               \/ pc = "i_wait2" /\ NoCard(card_data') /\ written' = written
               \/ pc = "i_retry" /\ NoCard(card_data) /\ written' = written
               \/ /\ pc = "i_confirm"
                  /\ Mismatch(card_data.v, tags_to_capture[iter + 1][1])
                  /\ written' = written]_vars
    /\ [](\A j \in 1..Len(written) :
            \E k \in 1..Len(tags_to_capture) :
                /\ k <= iter + 1
                /\ written[j].path = <<reader_id, tags_to_capture[k][2]>>
                /\ \A i \in 1..Len(written) :
                      written[i].path = written[j].path => i = j)

\* C3: the first profile was saved and the second given up on a declined
\* type mismatch.
C3_Witness ==
    /\ iter = 2
    /\ Len(written) = 1
    /\ written[1].path = <<reader_id, tags_to_capture[1][2]>>
    /\ outcome = <<"declined">>

\* C7: two consecutive profiles are saved with the same UID only if a
\* card_removed was received between the two saves.
C7_SuppressesRepeats ==
    [][(/\ written' # written
        /\ written # <<>>
        /\ iter >= 1
        /\ LastWritten.path = <<reader_id, tags_to_capture[iter][2]>>
        /\ LastWritten'.uid = LastWritten.uid) => removed_since]_vars

-----------------------------------------------------------------------------
(* Properties of the requests and their replies. *)

\* The script takes the text e as the reply it awaits.
TakesAsReply(e) ==
    /\ AwaitingReply
    /\ chan # <<>>
    /\ Head(chan) = e
    /\ chan' = Tail(chan)

\* The subscribe requests sent so far.
SubscribesSent == {i \in 1..Len(sent) : sent[i].type = "subscribe"}

HasError(text) ==
    /\ Loads(text).ok
    /\ Loads(text).val.t = "obj"
    /\ "error" \in DOMAIN Loads(text).val.v

\* C12: after a reply to list_readers or to subscribe that carries an error
\* field the run does not go on: it sends no further request and does not
\* enter its loop.
C12_ErrorReplyStopsRun ==
    [][\A e \in {ErrorReply(t, i) : t \in {"list_readers", "subscribe"},
                                     i \in {"1", "2", "list-1", "sub-1"}} :
          (pc \in {"a_list_reply", "a_sub_reply", "c_list_reply",
                   "c_sub_reply"} /\ TakesAsReply(e))
              => pc' \in {"error", "crash", "a_no_readers", "c_no_readers",
                          "c_sub_failed"}]_vars

\* The id of an envelope, None if it has none.
IdOf(text) ==
    IF Loads(text).ok /\ Loads(text).val.t = "obj"
    THEN Get(Loads(text).val.v, "id", None)
    ELSE None

\* C13: the envelope taken as the reply to a request carries the id of that
\* request.
C13_ReplyMatchesRequest ==
    [][(AwaitingReply /\ chan # <<>> /\ chan' = Tail(chan))
          => IdOf(Head(chan)) = sent[Len(sent)].id]_vars

\* C19: a receive that awaits a reply has a timeout outcome: while nothing
\* has arrived the script still has a step to take.
C19_ReplyReceiveTimesOut ==
    (AwaitingReply /\ chan = <<>>) => ENABLED ScriptRpc

-----------------------------------------------------------------------------
(* Properties of the event stream. *)

\* C14: a card_detected the script receives is handed to the sequencer
\* unless the debounce rule suppresses it: in capture_tags_for_reader a
\* card_detected with a UID other than that of the fixture saved last starts
\* the capture of the current profile, whichever wait receives it.
C14_NoEventDiscarded ==
    [][\A u \in UIDs :
          (/\ pc \in {"i_wait", "i_wait2", "i_removal"}
           /\ chan # <<>>
           /\ Head(chan) = CardDetected(u, TRUE)
           /\ chan' = Tail(chan)
           /\ written # <<>> => LastWritten.uid # u)
              => pc' = "i_settle" /\ Get(card_data'.v, "uid", "") = u]_vars

\* C15: a malformed event is ignored: the loop stays at its receive, and
\* index, remembered UID, log and fixtures are unchanged.
C15_MalformedIgnored ==
    [][\A e \in MalformedEvents :
          Receives(e) =>
              /\ pc' = "recv"
              /\ UNCHANGED <<tag_index, last_uid, log, written>>]_vars

\* C16: an envelope of another type, and a card_detected whose UID is empty
\* or missing, change nothing: the loop stays at its receive with index,
\* remembered UID, log, fixtures and the capture variables as they were.
C16_IdleEventsChangeNothing ==
    [][\A e \in IdleEvents :
          Receives(e) =>
              /\ pc' = "recv"
              /\ UNCHANGED <<tag_index, last_uid, log, written, card,
                             responses, steps, clears, qualified>>]_vars

\* C16: such an event has just been ignored, a tag being remembered after a
\* capture.
C16_Witness ==
    /\ pc = "recv"
    /\ tag_index >= 1
    /\ last_uid \in UIDs
    /\ outcome = <<"ignore", FALSE>>

-----------------------------------------------------------------------------
(* Properties of the receive timeouts. *)

\* The script's own variables: what a run has done so far.
progress == <<tag_index, last_uid, written, card, responses, steps, clears,
              qualified>>

\* C17 as stated: a receive timeout is recoverable in the automatic loop and
\* in the single-tag capture alike: a receive that finds nothing leaves the
\* loop waiting, with everything the run has done so far as it was.
C17_TimeoutKeepsWaiting ==
    [][(pc \in {"recv", "o_recv"} /\ chan = <<>>) =>
          (pc' = pc /\ UNCHANGED progress)]_vars

\* C17, amended: in the automatic loop a receive timeout leaves the loop
\* waiting with the index, the remembered UID and the fixtures as they
\* were, and a detection that qualifies right after a timeout starts the
\* capture for the current profile; in the single-tag capture the first
\* receive timeout ends the run, and no fixture is written by it or after it.
C17_TimeoutRecoverableInAutoOnly ==
    /\ [][(pc = "recv" /\ chan = <<>>) =>
              (pc' = "recv" /\ UNCHANGED progress)]_vars
    /\ [][\A u \in UIDs : \A e \in DetectedWith(u) :
              (outcome = <<"timeout">> /\ Receives(e) /\ Qualifies(u, last_uid))
                  => /\ pc' = "settle"
                     /\ last_uid' = u
                     /\ tag_index' = tag_index
                     /\ written' = written]_vars
    /\ [][(pc = "o_recv" /\ chan = <<>> /\ outcome' = <<"timeout">>) =>
              (pc' = "o_timeout" /\ written' = written)]_vars
    /\ [][pc = "o_timeout" => (pc' = "o_timeout" /\ written' = written)]_vars

\* C17: the automatic loop, a fixture written and its tag remembered, is
\* waiting again after a receive timeout.
C17_Witness ==
    /\ pc = "recv"
    /\ outcome = <<"timeout">>
    /\ tag_index >= 1
    /\ last_uid \in UIDs
    /\ Len(written) = tag_index

\* C18: every run of the automatic loop eventually ends: with all profiles
\* captured, with an error, or by cancellation.
C18_RunTerminates == <>(pc \in {"done", "error", "cancelled"})

-----------------------------------------------------------------------------
(* Properties of the end of a run. *)

\* The run has stopped without capturing all its profiles: by an error, an
\* uncaught exception, cancellation, or the single-tag capture's timeout.
StoppedEarly == pc \in {"error", "crash", "cancelled", "o_timeout"}

\* C20: a subscribed run that has stopped before capturing all profiles has
\* sent an unsubscribe request before its session was closed.
C20_UnsubscribeOnEarlyStop ==
    (StoppedEarly /\ \E i \in 1..Len(sent) : sent[i].type = "subscribe") =>
        \E j \in 1..Len(sent) : sent[j].type = "unsubscribe"

-----------------------------------------------------------------------------
(* Properties of the payload encodings. *)

\* C21: a list_readers reply is accepted in both encodings of its payload:
\* the run does not fail on either, and with a reader in the list it goes on
\* with that reader's name, whichever the encoding.
C21_BothEncodingsAccepted ==
    [][\A id \in {"1", "list-1"} : \A r \in ReaderLists : \A s \in BOOLEAN :
          (pc \in {"a_list_reply", "c_list_reply"}
              /\ TakesAsReply(ListReply(id, r, s)))
              => /\ pc' \notin {"error", "crash"}
                 /\ r # <<>> => reader_name' = ReaderName]_vars

-----------------------------------------------------------------------------
(* Properties of the capture log as text. *)

\* The log the run found when it started.
found == steps

\* C22: parse_capture_log() called right after clear_capture_log() returns
\* the empty mapping, whatever the log held before the clear and whether or
\* not it existed; the clear leaves no file behind.
C22_ReadAfterClearIsEmpty ==
    /\ pc \in {"la_reread", "lc_reread"} => responses = EmptyDict
    /\ pc \in {"la_cleared", "lc_cleared", "la_reread", "lc_reread"}
          => log = NoFile

\* C22: a log whose lines parse to a mapping that is not empty has been
\* cleared and read again.
C22_Witness ==
    /\ pc = "la_reread"
    /\ found # NoFile
    /\ parse_text("auto", found) # EmptyDict
    /\ responses = EmptyDict

\* The fields the agent wrote into a line.
FieldsOf(line) ==
    CHOOSE fs \in LineFields : \E padded \in BOOLEAN :
        LineText(fs, padded) = line

\* The lower-case name of an operation.
KeyOf(op) ==
    IF op \in {OpRead, OpReadMixed} THEN <<"r", "e", "a", "d">>
    ELSE <<"e", "r", "a", "s", "e">>

\* A response field without its leading marker.
Unmarked(field) ==
    IF Len(field) >= 4 /\ SubSeq(field, 1, 4) = RspMarker
    THEN SubSeq(field, 5, Len(field))
    ELSE field

\* The lines of a log that have at least four fields.
FullLines(lines) == {i \in 1..Len(lines) : Len(FieldsOf(lines[i])) >= 4}

\* The last full line of a log for the key k.
LastFor(lines, k) ==
    CHOOSE i \in FullLines(lines) :
        /\ KeyOf(FieldsOf(lines[i])[2]) = k
        /\ \A j \in FullLines(lines) :
              KeyOf(FieldsOf(lines[j])[2]) = k => j <= i

\* The mapping of a log: for each operation name of a full line, in lower
\* case, the response of the last full line of that name.
MappingOf(file) ==
    IF file = NoFile THEN EmptyDict
    ELSE [k \in {KeyOf(FieldsOf(file[i])[2]) : i \in FullLines(file)} |->
             Unmarked(FieldsOf(file[LastFor(file, k)])[4])]

\* C23: parse_capture_log() returns the mapping of the log: the key of
\* every line with at least four fields is the lower-case operation name,
\* its value the response without the marker (in capture_tag_data, next to
\* the command), a later line of the same name replaces an earlier one, and
\* shorter lines add nothing.
C23_ReadFoldsLines ==
    /\ pc = "la_read" => responses = MappingOf(found)
    /\ pc = "lc_read" =>
          /\ DOMAIN responses = DOMAIN MappingOf(found)
          /\ \A k \in DOMAIN responses :
                responses[k].rsp = MappingOf(found)[k]

\* C23: a log of two full lines for one operation name, in different letter
\* case, has been read: the later response is the one kept.
C23_Witness ==
    /\ pc = "la_read"
    /\ found = <<LineText(FullLine(OpRead, "1"), TRUE),
                 LineText(FullLine(OpReadMixed, "2"), FALSE)>>
    /\ responses = [k \in {<<"r", "e", "a", "d">>} |-> <<"0", "2">>]

-----------------------------------------------------------------------------
(* Properties of the reader id. *)

\* The name contains the text, in any letter case.
Contains(name, text) == IsIn(Upper(text), Upper(name))

\* The name carries one of the known model markers.
HasMarker(name) ==
    \/ Contains(name, <<"1", "5", "5", "2">>)
    \/ Contains(name, <<"1", "2", "2", "U">>)
    \/ Contains(name, <<"1", "2", "5", "2">>)

\* C24: a display name that contains "122U" in any letter case has the id
\* acr122u; a name with no known model marker has the sanitized name as its
\* id, at most 20 characters long and not empty.
C24_ReaderIdDerivation ==
    pc \in {"ga_id", "go_id", "gc_id"} =>
        /\ Contains(reader_name, <<"1", "2", "2", "U">>)
              => reader_id = "acr122u"
        /\ ~HasMarker(reader_name)
              => /\ Sanitized(reader_name) = reader_id
                 /\ Len(Sanitized(reader_name)) <= 20
                 /\ Sanitized(reader_name) # <<>>

-----------------------------------------------------------------------------
(* Properties of the log under concurrent writes. *)

\* The snapshot holds the record of the line.
InSnapshot(line, snapshot) ==
    /\ Lower(line[2]) \in DOMAIN snapshot
    /\ snapshot[Lower(line[2])] = StripRsp(line[4])

\* C25: every full line that clear_capture_log() removes after a capture
\* is in the snapshot parse_capture_log() returned for that capture.
C25_NoRecordLostAtClear ==
    [][(pc = "clear" /\ pc' = "advance" /\ log # NoFile) =>
          \A i \in 1..Len(log) :
              Len(log[i]) >= 4 => InSnapshot(log[i], responses)]_vars

-----------------------------------------------------------------------------
(* Properties of the write tests. *)

\* The request succeeded: it was answered with 200, every item of a batch
\* written, and a value read back equal to the value written.
Succeeded(step) ==
    /\ step.status = 200
    /\ \A i \in 1..Len(step.results) : step.results[i]
    /\ step.op = "read" => Upper(step.data) = step.expected

\* C26: main exits with code 0 only if every write request succeeded and
\* every value read back equals the value written.
C26_PassMeansRoundTrip ==
    (pc = "wm_exit" /\ outcome = <<"exit", 0>>) =>
        \A i \in 1..Len(steps) : Succeeded(steps[i])

====
